---- MODULE Spec2Model ----
(***************************************************************************)
(* Model of the log-structured key-value engine KvStore                    *)
(* (src/src/engine/kvs.rs): the append-only log kvs.log, the in-memory     *)
(* index `store`, the counters log_pos and num_uncompacted, the buffered   *)
(* writer, the compaction into kvs.log.new and the scan done by open.      *)
(*                                                                         *)
(* A file is a sequence of fragments.  A fragment is the 8-byte size       *)
(* prefix of a record, the serialized payload of a record, or a run of     *)
(* bytes that is neither (junk).  Byte offsets are sums of fragment        *)
(* lengths, so an offset can fall on the start of a record, inside one, or *)
(* past the end of the file.                                               *)
(***************************************************************************)
EXTENDS Integers, Sequences, FiniteSets, TLC

\* ----------------------------------------------------------------------
\* Bounds of the model
\* ----------------------------------------------------------------------
MaxOps == 5
SmallLen == 1
BigLen == 1048576
MaxFaults == 1
MaxCrashes == 1
MaxConns == 4

\* ----------------------------------------------------------------------
\* Program constants
\* ----------------------------------------------------------------------
MAX_UNCOMPACTED == 1048576
SizeOfU64 == 8
BufCap == 8192

\* ----------------------------------------------------------------------
\* Keys, values, commands
\* ----------------------------------------------------------------------
KeySeq == <<"a", "b">>
Keys == {KeySeq[i] : i \in 1..Len(KeySeq)}
\* BTreeMap<String, _> iterates in key order
KeyRank(k) == CHOOSE i \in 1..Len(KeySeq) : KeySeq[i] = k
KeyLen(k) == 1

\* A value is the string made of `len` copies of `ch`.
NoVal == [ch |-> "none", len |-> 0]
Values == { [ch |-> "x", len |-> SmallLen], [ch |-> "y", len |-> BigLen] }

NoCmd == [op |-> "None", key |-> "", val |-> NoVal]
SetCmd(k, v) == [op |-> "Set", key |-> k, val |-> v]
RemoveCmd(k) == [op |-> "Remove", key |-> k, val |-> NoVal]
GetCmd(k) == [op |-> "Get", key |-> k, val |-> NoVal]

\* MessagePack string: a header of 1, 2, 3 or 5 bytes, then the bytes.
StrEnc(n) == n + (IF n < 32 THEN 1 ELSE IF n < 256 THEN 2 ELSE IF n < 65536 THEN 3 ELSE 5)

\* rmp_serde::to_vec(&Command): [variant index, [fields...]]
PayloadLen(cmd) ==
    3 + StrEnc(KeyLen(cmd.key)) + (IF cmd.op = "Set" THEN StrEnc(cmd.val.len) ELSE 0)

\* ----------------------------------------------------------------------
\* Files as sequences of fragments
\* ----------------------------------------------------------------------
SizeFrag(n) == [t |-> "size", n |-> n, cmd |-> NoCmd]
CmdFrag(cmd) == [t |-> "cmd", n |-> PayloadLen(cmd), cmd |-> cmd]
JunkFrag(n) == [t |-> "junk", n |-> n, cmd |-> NoCmd]

FragLen(f) == IF f.t = "size" THEN SizeOfU64 ELSE f.n

RECURSIVE PrefixLen(_, _)
\* number of bytes in the first i fragments of file
PrefixLen(file, i) == IF i = 0 THEN 0 ELSE PrefixLen(file, i - 1) + FragLen(file[i])

FileLen(file) == PrefixLen(file, Len(file))

\* the fragment that starts at byte offset p (0: none does)
FragStart(file, p) ==
    LET S == {i \in 1..Len(file) : PrefixLen(file, i - 1) = p}
    IN IF S = {} THEN 0 ELSE CHOOSE i \in S : TRUE

Min(a, b) == IF a < b THEN a ELSE b

\* ----------------------------------------------------------------------
\* Results
\* ----------------------------------------------------------------------
Res(tag, v) == [tag |-> tag, val |-> v]
ResOk == Res("Ok", NoVal)
ResNone == Res("None", NoVal)
ResSome(v) == Res("Some", v)
ResKeyNotFound == Res("KeyNotFound", NoVal)
ResIOError == Res("IOError", NoVal)
ResDeserializeError == Res("DeserializeError", NoVal)
ResPanic == Res("Panic", NoVal)
\* bytes that are no record were decoded: an error, a panic or a wrong value
ResGarbage == Res("Garbage", NoVal)
\* the process stopped inside the call: the call never returns
ResCrash == Res("Crash", NoVal)

\* ----------------------------------------------------------------------
\* Reading the log
\* ----------------------------------------------------------------------
\* seek(p); read_command_size; rmp_serde::from_read
\*   "eof"       fewer than 8 bytes are left at p: read_exact fails
\*   "ok"        p is the start of a record: its command is decoded
\*   "nopayload" a size prefix is at p, but no payload follows it
\*   "garbage"   the bytes at p are no size prefix, or junk follows it
ReadRecord(file, p) ==
    LET i == FragStart(file, p)
    IN IF p + SizeOfU64 > FileLen(file)
         THEN [st |-> "eof", cmd |-> NoCmd]
       ELSE IF i = 0 \/ file[i].t # "size"
         THEN [st |-> "garbage", cmd |-> NoCmd]
       ELSE IF i = Len(file) \/ file[i + 1].t = "size"
         THEN [st |-> "nopayload", cmd |-> NoCmd]
       ELSE IF file[i + 1].t = "cmd"
         THEN [st |-> "ok", cmd |-> file[i + 1].cmd]
       ELSE [st |-> "garbage", cmd |-> NoCmd]

\* KvStore::get, on the index st and the file behind log_reader
GetRes(st, file, key) ==
    IF key \notin DOMAIN st THEN ResNone
    ELSE LET r == ReadRecord(file, st[key].pos)
         IN CASE r.st = "eof" -> ResIOError
              [] r.st = "nopayload" -> ResDeserializeError
              [] r.st = "garbage" -> ResGarbage
              [] r.st = "ok" ->
                   IF r.cmd.op = "Set" /\ r.cmd.key = key
                     THEN ResSome(r.cmd.val)
                     ELSE ResPanic

GetAll(st, file) == [k \in Keys |-> GetRes(st, file, k)]

\* KvStore::process_command
process_command(st, command, index) ==
    CASE command.op = "Set" ->
           [k \in (DOMAIN st) \cup {command.key} |->
               IF k = command.key THEN index ELSE st[k]]
      [] command.op = "Remove" ->
           [k \in (DOMAIN st) \ {command.key} |-> st[k]]
      [] OTHER -> st

EmptyStore == [k \in {} |-> [pos |-> 0, size |-> 0]]

RECURSIVE LoadLoop(_, _, _, _, _)
\* the while loop of load_log: the reader is at fragment i, pos is the
\* offset computed from the sizes read so far
LoadLoop(file, i, pos, size, st) ==
    IF pos >= size THEN [ok |-> TRUE, store |-> st, err |-> "Ok"]
    ELSE IF PrefixLen(file, i - 1) + SizeOfU64 > size
      THEN [ok |-> FALSE, store |-> st, err |-> "IOError"]
    ELSE IF file[i].t # "size"
      THEN [ok |-> FALSE, store |-> st, err |-> "DeserializeError"]
    ELSE IF i = Len(file) \/ file[i + 1].t # "cmd"
      THEN [ok |-> FALSE, store |-> st, err |-> "DeserializeError"]
    ELSE LET index == [pos |-> pos, size |-> SizeOfU64 + file[i].n]
         IN LoadLoop(file, i + 2, pos + index.size, size,
                     process_command(st, file[i + 1].cmd, index))

\* a scan that stops at the first record it cannot read and keeps the
\* records before it
load_log_SkipsTornTail(file) ==
    LET r == LoadLoop(file, 1, 0, FileLen(file), EmptyStore)
    IN [ok |-> TRUE, store |-> r.store, log_pos |-> FileLen(file), err |-> "Ok"]

\* KvStore::load_log on a fresh engine
load_log(file) ==
    LET size == FileLen(file)
    IN IF size = 0
         THEN [ok |-> TRUE, store |-> EmptyStore, log_pos |-> 0, err |-> "Ok"]
         ELSE LET r == LoadLoop(file, 1, 0, size, EmptyStore)
              IN [ok |-> r.ok, store |-> r.store,
                  log_pos |-> IF r.ok THEN size ELSE 0, err |-> r.err]

\* ----------------------------------------------------------------------
\* Compaction
\* ----------------------------------------------------------------------
\* log_data.sort_by(pos): a stable sort of the index taken in key order
SortedKeys(st) ==
    LET D == DOMAIN st
        n == Cardinality(D)
        Before(a, b) == \/ st[a].pos < st[b].pos
                        \/ st[a].pos = st[b].pos /\ KeyRank(a) < KeyRank(b)
    IN IF n = 0 THEN <<>>
       ELSE CHOOSE s \in [1..n -> D] :
              \A i, j \in 1..n : i < j => Before(s[i], s[j])

\* What one pass of the copy loop appends to the new log for the entry at
\* offset p: the 8 bytes read as the size, then io::copy of take(size).
\* Bytes that are no size prefix are key or value text; read as a
\* little-endian u64 they exceed the file length, so the copy runs to EOF.
CopyFrags(src, p) ==
    LET i == FragStart(src, p)
        rest == FileLen(src) - p - SizeOfU64
    IN IF i # 0 /\ src[i].t = "size"
         THEN IF i < Len(src) /\ src[i + 1].t = "cmd" /\ src[i + 1].n = src[i].n
                THEN <<src[i], src[i + 1]>>
                ELSE IF Min(src[i].n, rest) > 0
                       THEN <<src[i], JunkFrag(Min(src[i].n, rest))>>
                       ELSE <<src[i]>>
         ELSE <<JunkFrag(FileLen(src) - p)>>

RECURSIVE CopyLoop(_, _, _, _, _, _)
\* the for loop of compact over log_data[i..]
CopyLoop(order, i, st, src, out, new_log_pos) ==
    IF i > Len(order)
      THEN [ok |-> TRUE, store |-> st, out |-> out, new_log_pos |-> new_log_pos]
    ELSE LET k == order[i]
         IN IF st[k].pos + SizeOfU64 > FileLen(src)
              THEN [ok |-> FALSE, store |-> st, out |-> out, new_log_pos |-> new_log_pos]
              ELSE CopyLoop(order, i + 1,
                            [st EXCEPT ![k].pos = new_log_pos],
                            src, out \o CopyFrags(src, st[k].pos),
                            new_log_pos + st[k].size)

\* KvStore::compact on the engine e.  kvs.log.new is opened with create and
\* append, so what the file already holds stays in front of the copies.
compact(e) ==
    LET r == CopyLoop(SortedKeys(e.store), 1, e.store, e.log, <<>>, 0)
    IN IF r.ok
         THEN [e EXCEPT !.store = r.store,
                        !.log_pos = r.new_log_pos,
                        !.log = e.newlog \o r.out,
                        !.newlog = <<>>,
                        !.num_uncompacted = 0,
                        !.ok = TRUE]
         ELSE [e EXCEPT !.store = r.store,
                        !.newlog = e.newlog \o r.out,
                        !.ok = FALSE]

\* ----------------------------------------------------------------------
\* The buffered writer
\* ----------------------------------------------------------------------
NoFault == [at |-> "none", kind |-> "none", j |-> 0]
Faults == [at : {"size", "payload", "flush"}, kind : {"flush_buf", "inner"}, j : 0..2]

\* BufWriter::flush_buf: write the buffer w to the file f; a failure after
\* j fragments leaves the others in the buffer
FlushBuf(w, f, fail, j) ==
    IF fail /\ j < Len(w)
      THEN [ok |-> FALSE, w |-> SubSeq(w, j + 1, Len(w)), f |-> f \o SubSeq(w, 1, j)]
      ELSE [ok |-> TRUE, w |-> <<>>, f |-> f \o w]

\* BufWriter::write(frag): flush when frag does not fit, write frag straight
\* to the file when it is as large as the buffer, buffer it otherwise
BufWrite(w, f, frag, fault, j) ==
    LET fl == IF FileLen(w) + FragLen(frag) > BufCap
                THEN FlushBuf(w, f, fault = "flush_buf", j)
                ELSE [ok |-> TRUE, w |-> w, f |-> f]
    IN IF ~fl.ok THEN fl
       ELSE IF FragLen(frag) >= BufCap
         THEN IF fault = "inner"
                THEN [ok |-> FALSE, w |-> fl.w, f |-> fl.f]
                ELSE [ok |-> TRUE, w |-> fl.w, f |-> fl.f \o <<frag>>]
       ELSE [ok |-> TRUE, w |-> fl.w \o <<frag>>, f |-> fl.f]

FaultAt(fault, at) == IF fault.at = at THEN fault.kind ELSE "none"

\* write_command_size; log_writer.write(&buf); log_writer.flush()
AppendRecord(w, f, cmd, fault) ==
    LET s1 == BufWrite(w, f, SizeFrag(PayloadLen(cmd)), FaultAt(fault, "size"), fault.j)
        s2 == IF s1.ok
                THEN BufWrite(s1.w, s1.f, CmdFrag(cmd), FaultAt(fault, "payload"), fault.j)
                ELSE s1
    IN IF s2.ok
         THEN FlushBuf(s2.w, s2.f, FaultAt(fault, "flush") = "flush_buf", fault.j)
         ELSE s2

\* ----------------------------------------------------------------------
\* set and remove on an engine record
\* ----------------------------------------------------------------------
\* An engine record holds the fields of KvStore and the two files of its
\* directory, and about the call in progress: appended (the record reached
\* the log), ok (the call returns Ok), ran (it ran a compaction), before
\* (what get returned for every key right before that compaction) and at
\* (the counter, the index and the two files when the call compared the
\* counter with MAX_UNCOMPACTED).
NoSnap == [reached |-> FALSE, unc |-> 0, store |-> EmptyStore, log |-> <<>>, newlog |-> <<>>]

Snap(e) == [reached |-> TRUE, unc |-> e.num_uncompacted, store |-> e.store,
            log |-> e.log, newlog |-> e.newlog]

\* compaction decided on the length of the log, not on the counter
MaybeCompact_ByLogPos(e) ==
    IF e.log_pos > MAX_UNCOMPACTED
      THEN compact([e EXCEPT !.ran = TRUE, !.before = GetAll(e.store, e.log),
                             !.at = Snap(e)])
      ELSE [e EXCEPT !.at = Snap(e)]

\* if self.num_uncompacted > Self::MAX_UNCOMPACTED { self.compact()?; }
MaybeCompact(e) ==
    IF e.num_uncompacted > MAX_UNCOMPACTED
      THEN compact([e EXCEPT !.ran = TRUE, !.before = GetAll(e.store, e.log),
                             !.at = Snap(e)])
      ELSE [e EXCEPT !.at = Snap(e)]

SetIndex(st, key, index) ==
    IF key \in DOMAIN st
      THEN [st EXCEPT ![key].pos = index.pos]
      ELSE [k \in (DOMAIN st) \cup {key} |-> IF k = key THEN index ELSE st[k]]

\* KvStore::set
DoSet(e, key, value, fault) ==
    LET command == SetCmd(key, value)
        size == PayloadLen(command)
        a == AppendRecord(e.log_writer, e.log, command, fault)
        index == [pos |-> e.log_pos, size |-> SizeOfU64 + size]
        e0 == [e EXCEPT !.log_writer = a.w, !.log = a.f, !.ran = FALSE,
                        !.before = GetAll(EmptyStore, <<>>), !.at = NoSnap]
    IN IF ~a.ok THEN [e0 EXCEPT !.ok = FALSE, !.appended = FALSE]
       ELSE MaybeCompact(
              [e0 EXCEPT !.ok = TRUE, !.appended = TRUE,
                         !.num_uncompacted =
                             IF key \in DOMAIN e.store THEN @ + e.store[key].size ELSE @,
                         !.store = SetIndex(e.store, key, index),
                         !.log_pos = @ + index.size])

\* remove that looks the key up and leaves it in the index
DoRemove_KeepsKey(e, key, fault) ==
    LET old == e.store[key]
        command == RemoveCmd(key)
        a == AppendRecord(e.log_writer, e.log, command, fault)
        size == SizeOfU64 + PayloadLen(command)
        e0 == [e EXCEPT !.log_writer = a.w, !.log = a.f, !.ran = FALSE,
                        !.before = GetAll(EmptyStore, <<>>), !.at = NoSnap]
    IN IF ~a.ok THEN [e0 EXCEPT !.ok = FALSE, !.appended = FALSE]
       ELSE [e0 EXCEPT !.ok = TRUE, !.appended = TRUE,
                       !.num_uncompacted = @ + old.size + size,
                       !.log_pos = @ + size]

\* KvStore::remove of a key that is in the index
DoRemove(e, key, fault) ==
    LET old == e.store[key]
        command == RemoveCmd(key)
        a == AppendRecord(e.log_writer, e.log, command, fault)
        size == SizeOfU64 + PayloadLen(command)
        e0 == [e EXCEPT !.store = [k \in (DOMAIN e.store) \ {key} |-> e.store[k]],
                        !.log_writer = a.w, !.log = a.f, !.ran = FALSE,
                        !.before = GetAll(EmptyStore, <<>>), !.at = NoSnap]
    IN IF ~a.ok THEN [e0 EXCEPT !.ok = FALSE, !.appended = FALSE]
       ELSE MaybeCompact(
              [e0 EXCEPT !.ok = TRUE, !.appended = TRUE,
                         !.num_uncompacted = @ + old.size + size,
                         !.log_pos = @ + size])

\* ----------------------------------------------------------------------
\* State
\* ----------------------------------------------------------------------
VARIABLES
    store,            \* KvStore.store: key -> [pos, size]
    log_pos,          \* KvStore.log_pos
    num_uncompacted,  \* KvStore.num_uncompacted
    log_writer,       \* the fragments held in the BufWriter of log_writer
    log,              \* the bytes of kvs.log
    newlog,           \* the bytes of kvs.log.new (empty: absent or empty)
    engine,           \* "open": open returned an engine; "failed": an error;
                      \* "crashed": the process stopped, none has run since
    ret,              \* the last call and what it returned
    cmp,              \* whether the last call compacted, and get before it
    model,            \* the map the successful set and remove calls define
    clean,            \* every set and remove so far returned Ok or KeyNotFound
                      \* (and, when the process stopped in a compaction, the
                      \* engine answered get with model at that moment)
    removed,          \* per key: the last set or remove of the key on this
                      \* engine was a remove that returned Ok ("plain"), and
                      \* ran a compaction ("compacted"); "no" otherwise
    steps,            \* number of calls made
    faults,           \* number of injected IO errors
    crashes,          \* number of times the process stopped in a compaction
    opens,            \* number of opens since the last set or remove call
    server,           \* KvsServer: "down" (no server owns the engine),
                      \* "running" (in the loop of start), "panicked", or
                      \* "stopped" (start returned an error)
    pending,          \* connections made and not yet accepted, oldest first
    cur,              \* the connection start has accepted and not answered
    trace,            \* the connections answered so far, oldest first
    markers,          \* the directory: whether kvs.log and sled exist in it
    start,            \* the last run of kvs-server up to its call of start
    owners,           \* the engines kvs-server has opened the directory with
    cli,              \* the last run of the embedded kvs: what it printed
                      \* and its exit status
    db,               \* SledKvsEngine.db: the map sled holds, key -> value
    sret,             \* what the last call on SledKvsEngine returned
    rstore,           \* lib.rs KvStore.store: key -> offset
    rlog_pos,         \* lib.rs KvStore.log_pos
    rlog,             \* the entries of the kvs.log of the lib.rs KvStore
    rnewlog,          \* the entries of its kvs.log.new
    rret,             \* the last call on the lib.rs KvStore and its result
    rcmp,             \* whether that call compacted, and the index, what
                      \* get returned right before and right after it
    rsteps            \* number of calls made on the lib.rs KvStore

\* the state of the server and of its clients
net == <<server, pending, cur, trace>>

vars == <<store, log_pos, num_uncompacted, log_writer, log, newlog, engine,
          ret, cmp, model, clean, removed, steps, faults, crashes, opens,
          server, pending, cur, trace, markers, start, owners, cli,
          db, sret, rstore, rlog_pos, rlog, rnewlog, rret, rcmp, rsteps>>

\* the engine that delegates to sled
sledv == <<db, sret>>

\* the KvStore of lib.rs
root == <<rstore, rlog_pos, rlog, rnewlog, rret, rcmp, rsteps>>

\* the directory and the processes run in it, and the other engines
ext == <<markers, start, owners, cli, sledv, root>>

\* what a direct call on the engine leaves alone
others == <<crashes, net, ext>>

NoConn == [id |-> 0]

NoneMap == [k \in Keys |-> ResNone]

Eng == [store |-> store, log_pos |-> log_pos, num_uncompacted |-> num_uncompacted,
        log_writer |-> log_writer, log |-> log, newlog |-> newlog,
        ok |-> TRUE, appended |-> TRUE, ran |-> FALSE, before |-> NoneMap,
        at |-> NoSnap]

NoCmp == [ran |-> FALSE, before |-> NoneMap, at |-> NoSnap]

Install(e) ==
    /\ store' = e.store
    /\ log_pos' = e.log_pos
    /\ num_uncompacted' = e.num_uncompacted
    /\ log_writer' = e.log_writer
    /\ log' = e.log
    /\ newlog' = e.newlog
    /\ cmp' = [ran |-> e.ran, before |-> e.before, at |-> e.at]

InitEngine ==
    /\ store = EmptyStore
    /\ log_pos = 0
    /\ num_uncompacted = 0
    /\ log_writer = <<>>
    /\ log = <<>>
    /\ newlog = <<>>
    /\ engine = "open"
    /\ ret = [op |-> "open", key |-> "", res |-> ResOk]
    /\ cmp = NoCmp
    /\ model = NoneMap
    /\ clean = TRUE
    /\ removed = [k \in Keys |-> "no"]
    /\ steps = 0
    /\ faults = 0
    /\ crashes = 0
    /\ opens = 1

NoOffsets == [k \in {} |-> 0]

RootNoCmp == [ran |-> FALSE, ok |-> TRUE, store |-> NoOffsets,
              before |-> NoneMap, after |-> NoneMap]

\* lib.rs KvStore::open on an empty directory
InitRoot ==
    /\ rstore = NoOffsets
    /\ rlog_pos = 0
    /\ rlog = <<>>
    /\ rnewlog = <<>>
    /\ rret = [op |-> "open", key |-> "", res |-> ResOk]
    /\ rcmp = RootNoCmp
    /\ rsteps = 0

NoStart == [requested |-> "none", detected |-> "none", selected |-> "none",
            owned |-> {}, before |-> [kvs |-> FALSE, sled |-> FALSE],
            after |-> [kvs |-> FALSE, sled |-> FALSE],
            opened |-> "none", exit |-> 0, stdout |-> <<>>]

NoOut == [op |-> "none", key |-> "", res |-> ResOk,
          stdout |-> "", stderr |-> "", exit |-> 0]

\* KvStore::open has run in the directory: kvs.log exists
InitDir ==
    /\ markers = [kvs |-> TRUE, sled |-> FALSE]
    /\ start = NoStart
    /\ owners = {}
    /\ cli = NoOut
    /\ db = NoneMap
    /\ sret = ResOk
    /\ InitRoot

\* an engine opened on an empty directory by the program that calls it
Init ==
    /\ InitEngine
    /\ InitDir
    /\ server = "down"
    /\ pending = <<>>
    /\ cur = NoConn
    /\ trace = <<>>

\* ----------------------------------------------------------------------
\* Actions
\* ----------------------------------------------------------------------
\* set(key, value) with no IO error in its append
Set(key, value) ==
    /\ engine = "open"
    /\ steps < MaxOps
    /\ \E e \in {DoSet(Eng, key, value, NoFault)} :
          /\ Install(e)
          /\ ret' = [op |-> "set", key |-> key,
                     res |-> IF e.ok THEN ResOk ELSE ResIOError]
          /\ model' = IF e.ok THEN [model EXCEPT ![key] = ResSome(value)] ELSE model
          /\ clean' = (clean /\ e.ok)
    /\ removed' = [removed EXCEPT ![key] = "no"]
    /\ steps' = steps + 1
    /\ opens' = 0
    /\ UNCHANGED <<engine, faults>>

\* get that logs its command the way set and remove do
Get_LogsCommand(key) ==
    /\ engine = "open"
    /\ steps < MaxOps
    /\ \E a \in {AppendRecord(log_writer, log, GetCmd(key), NoFault)} :
          /\ log' = a.f
          /\ log_writer' = a.w
    /\ ret' = [op |-> "get", key |-> key, res |-> GetRes(store, log, key)]
    /\ cmp' = NoCmp
    /\ steps' = steps + 1
    /\ UNCHANGED <<store, log_pos, num_uncompacted, newlog,
                   engine, model, clean, removed, faults, opens>>

\* get(key)
Get(key) ==
    /\ engine = "open"
    /\ steps < MaxOps
    /\ ret' = [op |-> "get", key |-> key, res |-> GetRes(store, log, key)]
    /\ cmp' = NoCmp
    /\ steps' = steps + 1
    /\ UNCHANGED <<store, log_pos, num_uncompacted, log_writer, log, newlog,
                   engine, model, clean, removed, faults, opens>>

\* remove that writes the tombstone before it looks the key up
Remove_LogsAbsentKey(key) ==
    /\ engine = "open"
    /\ steps < MaxOps
    /\ IF key \in DOMAIN store
         THEN \E e \in {DoRemove(Eng, key, NoFault)} :
                 /\ Install(e)
                 /\ ret' = [op |-> "remove", key |-> key,
                            res |-> IF e.ok THEN ResOk ELSE ResIOError]
                 /\ model' = IF e.ok THEN [model EXCEPT ![key] = ResNone] ELSE model
                 /\ clean' = (clean /\ e.ok)
                 /\ removed' = [removed EXCEPT ![key] =
                                   IF ~e.ok THEN "no"
                                   ELSE IF e.ran THEN "compacted" ELSE "plain"]
         ELSE LET a == AppendRecord(log_writer, log, RemoveCmd(key), NoFault)
              IN /\ ret' = [op |-> "remove", key |-> key, res |-> ResKeyNotFound]
                 /\ cmp' = NoCmp
                 /\ log' = a.f
                 /\ log_writer' = a.w
                 /\ UNCHANGED <<store, log_pos, num_uncompacted, newlog, model,
                                clean, removed>>
    /\ steps' = steps + 1
    /\ opens' = 0
    /\ UNCHANGED <<engine, faults>>

\* remove(key) with no IO error in its append
Remove(key) ==
    /\ engine = "open"
    /\ steps < MaxOps
    /\ IF key \in DOMAIN store
         THEN \E e \in {DoRemove(Eng, key, NoFault)} :
                 /\ Install(e)
                 /\ ret' = [op |-> "remove", key |-> key,
                            res |-> IF e.ok THEN ResOk ELSE ResIOError]
                 /\ model' = IF e.ok THEN [model EXCEPT ![key] = ResNone] ELSE model
                 /\ clean' = (clean /\ e.ok)
                 /\ removed' = [removed EXCEPT ![key] =
                                   IF ~e.ok THEN "no"
                                   ELSE IF e.ran THEN "compacted" ELSE "plain"]
         ELSE /\ ret' = [op |-> "remove", key |-> key, res |-> ResKeyNotFound]
              /\ cmp' = NoCmp
              /\ UNCHANGED <<store, log_pos, num_uncompacted, log_writer, log,
                             newlog, model, clean, removed>>
    /\ steps' = steps + 1
    /\ opens' = 0
    /\ UNCHANGED <<engine, faults>>

\* open whose scan counts on from the write position of the engine that was
\* dropped
Open_KeepsWritePos ==
    /\ steps < MaxOps
    /\ LET file == log \o log_writer
           r == load_log(file)
       IN /\ log' = file
          /\ log_writer' = <<>>
          /\ store' = IF r.ok THEN r.store ELSE EmptyStore
          /\ log_pos' = log_pos + r.log_pos
          /\ num_uncompacted' = 0
          /\ engine' = IF r.ok THEN "open" ELSE "failed"
          /\ ret' = [op |-> "open", key |-> "",
                     res |-> Res(r.err, NoVal)]
    /\ cmp' = [NoCmp EXCEPT !.before = GetAll(store, log)]
    /\ removed' = [k \in Keys |-> "no"]
    /\ steps' = steps + 1
    /\ opens' = opens + 1
    /\ UNCHANGED <<newlog, model, clean, faults>>

\* The engine is dropped (the BufWriter writes what it still holds) and
\* KvStore::open is called on the same directory.
Open ==
    /\ steps < MaxOps
    /\ LET file == log \o log_writer
           r == load_log(file)
       IN /\ log' = file
          /\ log_writer' = <<>>
          /\ store' = IF r.ok THEN r.store ELSE EmptyStore
          /\ log_pos' = r.log_pos
          /\ num_uncompacted' = 0
          /\ engine' = IF r.ok THEN "open" ELSE "failed"
          /\ ret' = [op |-> "open", key |-> "",
                     res |-> Res(r.err, NoVal)]
    /\ cmp' = [NoCmp EXCEPT !.before = GetAll(store, log)]
    /\ removed' = [k \in Keys |-> "no"]
    /\ steps' = steps + 1
    /\ opens' = opens + 1
    /\ UNCHANGED <<newlog, model, clean, faults>>

\* set(key, value) whose append fails with an IO error
SetIOError(key, value, fault) ==
    /\ engine = "open"
    /\ steps < MaxOps
    /\ faults < MaxFaults
    /\ \E e \in {DoSet(Eng, key, value, fault)} :
          /\ ~e.appended
          /\ Install(e)
    /\ ret' = [op |-> "set", key |-> key, res |-> ResIOError]
    /\ clean' = FALSE
    /\ removed' = [removed EXCEPT ![key] = "no"]
    /\ steps' = steps + 1
    /\ opens' = 0
    /\ faults' = faults + 1
    /\ UNCHANGED <<engine, model>>

\* remove(key) of a key in the index whose append fails with an IO error
RemoveIOError(key, fault) ==
    /\ engine = "open"
    /\ steps < MaxOps
    /\ faults < MaxFaults
    /\ key \in DOMAIN store
    /\ \E e \in {DoRemove(Eng, key, fault)} :
          /\ ~e.appended
          /\ Install(e)
    /\ ret' = [op |-> "remove", key |-> key, res |-> ResIOError]
    /\ clean' = FALSE
    /\ removed' = [removed EXCEPT ![key] = "no"]
    /\ steps' = steps + 1
    /\ opens' = 0
    /\ faults' = faults + 1
    /\ UNCHANGED <<engine, model>>

\* calls made directly on the engine by the program that owns it
Next ==
    \/ \E key \in Keys, value \in Values : Set(key, value) /\ UNCHANGED others
    \/ \E key \in Keys : Get(key) /\ UNCHANGED others
    \/ \E key \in Keys : Remove(key) /\ UNCHANGED others
    \/ Open /\ UNCHANGED others

Spec == Init /\ [][Next]_vars

NextIO ==
    \/ Next
    \/ \E key \in Keys, value \in Values, fault \in Faults :
          SetIOError(key, value, fault) /\ UNCHANGED others
    \/ \E key \in Keys, fault \in Faults :
          RemoveIOError(key, fault) /\ UNCHANGED others

SpecIO == Init /\ [][NextIO]_vars

\* ----------------------------------------------------------------------
\* The process stops inside a compaction
\* ----------------------------------------------------------------------
RECURSIVE WriteFrags(_, _, _, _, _)
\* new_log_writer (a BufWriter on kvs.log.new) after the first m fragments
\* of frags were written to it: w is what it holds, f what the file holds
WriteFrags(w, f, frags, i, m) ==
    IF i > m THEN [w |-> w, f |-> f]
    ELSE LET b == BufWrite(w, f, frags[i], "none", 0)
         IN WriteFrags(b.w, b.f, frags, i + 1, m)

\* kvs.log.new when the process stops after m fragments of the copies were
\* written (what the BufWriter holds is lost), or, for m = Len(out) + 1,
\* after the flush and before the rename
NewLogAtCrash(nl, out, m) ==
    IF m > Len(out) THEN nl \o out
    ELSE WriteFrags(<<>>, nl, out, 1, m).f

\* The call on the engine record e (set or remove of key, which leaves the
\* map m) stops inside the compaction it started.  Nothing of the process
\* is left; kvs.log was only read.
Crash(e, key, op, m, j) ==
    /\ e.ran
    /\ crashes < MaxCrashes
    /\ LET r == CopyLoop(SortedKeys(e.at.store), 1, e.at.store, e.at.log, <<>>, 0)
       IN /\ j <= Len(r.out) + (IF r.ok THEN 1 ELSE 0)
          /\ newlog' = NewLogAtCrash(e.at.newlog, r.out, j)
    /\ log' = e.at.log
    /\ log_writer' = <<>>
    /\ store' = EmptyStore
    /\ log_pos' = 0
    /\ num_uncompacted' = 0
    /\ engine' = "crashed"
    /\ ret' = [op |-> op, key |-> key, res |-> ResCrash]
    /\ cmp' = [ran |-> TRUE, before |-> e.before, at |-> e.at]
    /\ model' = m
    /\ clean' = (clean /\ GetAll(e.at.store, e.at.log) = m)
    /\ removed' = [k \in Keys |-> "no"]
    /\ steps' = steps + 1
    /\ crashes' = crashes + 1
    /\ opens' = 0
    /\ UNCHANGED <<faults, net, ext>>

\* set(key, value) that stops inside its compaction
SetCrash(key, value, j) ==
    /\ engine = "open"
    /\ steps < MaxOps
    /\ Crash(DoSet(Eng, key, value, NoFault), key, "set",
             [model EXCEPT ![key] = ResSome(value)], j)

\* remove(key) that stops inside its compaction
RemoveCrash(key, j) ==
    /\ engine = "open"
    /\ steps < MaxOps
    /\ key \in DOMAIN store
    /\ Crash(DoRemove(Eng, key, NoFault), key, "remove",
             [model EXCEPT ![key] = ResNone], j)

MaxCopied == 2 * Cardinality(Keys) + 1

NextCrash ==
    \/ Next
    \/ \E key \in Keys, value \in Values, j \in 0..MaxCopied : SetCrash(key, value, j)
    \/ \E key \in Keys, j \in 0..MaxCopied : RemoveCrash(key, j)

SpecCrash == Init /\ [][NextCrash]_vars

\* ----------------------------------------------------------------------
\* An IO error inside a compaction
\* ----------------------------------------------------------------------
\* The call on the engine record e (set or remove of key, after which the
\* write position is lp) runs a compaction that returns an IO error once m
\* entries are copied: in the seek, read or copy of the next entry, or, for
\* m the number of entries, in new_log_writer.flush().  The entries copied
\* so far have their new offsets; new_log_writer is dropped.
CompactIOError(e, key, op, lp, m) ==
    /\ e.ran
    /\ faults < MaxFaults
    /\ LET order == SortedKeys(e.at.store)
       IN /\ m <= Len(order)
          /\ \E r \in {CopyLoop(SubSeq(order, 1, m), 1, e.at.store, e.at.log, <<>>, 0)} :
                /\ r.ok
                /\ store' = r.store
                /\ newlog' = e.at.newlog \o r.out
    /\ log' = e.at.log
    /\ log_writer' = e.log_writer
    /\ log_pos' = lp
    /\ num_uncompacted' = e.at.unc
    /\ ret' = [op |-> op, key |-> key, res |-> ResIOError]
    /\ cmp' = [ran |-> TRUE, before |-> e.before, at |-> e.at]
    /\ clean' = FALSE
    /\ removed' = [removed EXCEPT ![key] = "no"]
    /\ steps' = steps + 1
    /\ opens' = 0
    /\ faults' = faults + 1
    /\ UNCHANGED <<engine, model, crashes, net, ext>>

\* set(key, value) whose compaction returns an IO error
SetCompactIOError(key, value, m) ==
    /\ engine = "open"
    /\ steps < MaxOps
    /\ CompactIOError(DoSet(Eng, key, value, NoFault), key, "set",
                      log_pos + SizeOfU64 + PayloadLen(SetCmd(key, value)), m)

\* remove(key) whose compaction returns an IO error
RemoveCompactIOError(key, m) ==
    /\ engine = "open"
    /\ steps < MaxOps
    /\ key \in DOMAIN store
    /\ CompactIOError(DoRemove(Eng, key, NoFault), key, "remove",
                      log_pos + SizeOfU64 + PayloadLen(RemoveCmd(key)), m)

NextCompactIO ==
    \/ Next
    \/ \E key \in Keys, value \in Values, m \in 0..Cardinality(Keys) :
          SetCompactIOError(key, value, m)
    \/ \E key \in Keys, m \in 0..Cardinality(Keys) : RemoveCompactIOError(key, m)

SpecCompactIO == Init /\ [][NextCompactIO]_vars

\* ----------------------------------------------------------------------
\* The process stops inside an append
\* ----------------------------------------------------------------------
\* What is left of the record of cmd when the process stops while the record
\* is written: a part of the size prefix, the size prefix alone (for a
\* payload of BufCap bytes or more the BufWriter writes the prefix and the
\* payload in two calls), or the prefix and a part of the payload.
TornPrefixes(cmd) ==
    LET n == PayloadLen(cmd)
    IN { <<JunkFrag(SizeOfU64 - 1)>>, <<SizeFrag(n)>>, <<SizeFrag(n), JunkFrag(n - 1)>> }

\* the call op on key stops after frags reached kvs.log; nothing of the
\* process is left
TornAppend(key, op, frags) ==
    /\ engine = "open"
    /\ steps < MaxOps
    /\ crashes < MaxCrashes
    /\ log' = (log \o log_writer) \o frags
    /\ log_writer' = <<>>
    /\ store' = EmptyStore
    /\ log_pos' = 0
    /\ num_uncompacted' = 0
    /\ engine' = "crashed"
    /\ ret' = [op |-> op, key |-> key, res |-> ResCrash]
    /\ cmp' = NoCmp
    /\ removed' = [k \in Keys |-> "no"]
    /\ steps' = steps + 1
    /\ crashes' = crashes + 1
    /\ opens' = 0
    /\ UNCHANGED <<newlog, model, clean, faults, net, ext>>

\* set(key, value) that stops inside its append
TornSet(key, value) ==
    \E frags \in TornPrefixes(SetCmd(key, value)) : TornAppend(key, "set", frags)

\* remove(key) of a key in the index that stops inside its append
TornRemove(key) ==
    /\ key \in DOMAIN store
    /\ \E frags \in TornPrefixes(RemoveCmd(key)) : TornAppend(key, "remove", frags)

NextTorn ==
    \/ Next
    \/ \E key \in Keys, value \in Values : TornSet(key, value)
    \/ \E key \in Keys : TornRemove(key)

SpecTorn == Init /\ [][NextTorn]_vars

\* ----------------------------------------------------------------------
\* Server and client
\* ----------------------------------------------------------------------
\* enum Request { Set(String, String), Get(String), Remove(String) }
SetReq(k, v) == [op |-> "set", key |-> k, val |-> v]
GetReq(k) == [op |-> "get", key |-> k, val |-> NoVal]
RemoveReq(k) == [op |-> "remove", key |-> k, val |-> NoVal]

Requests ==
    {SetReq(k, v) : k \in Keys, v \in Values}
        \cup {GetReq(k) : k \in Keys} \cup {RemoveReq(k) : k \in Keys}

\* rmp_serde::to_vec(&Request): the index of the variant and its fields
EncodeRequest(req) ==
    CASE req.op = "set" -> [variant |-> 0, fields |-> <<req.key, req.val>>]
      [] req.op = "get" -> [variant |-> 1, fields |-> <<req.key>>]
      [] req.op = "remove" -> [variant |-> 2, fields |-> <<req.key>>]

\* bytes that are no Request: an unknown variant, a Set cut after its key
BadBytes ==
    { [variant |-> 3, fields |-> <<>>], [variant |-> 0, fields |-> <<KeySeq[1]>>] }

\* a decoder that takes a missing value of Set for the empty string
DecodeRequest_DefaultsValue(bytes) ==
    IF bytes.variant = 0 /\ Len(bytes.fields) = 2
      THEN [ok |-> TRUE, req |-> SetReq(bytes.fields[1], bytes.fields[2])]
    ELSE IF bytes.variant = 0 /\ Len(bytes.fields) = 1
      THEN [ok |-> TRUE, req |-> SetReq(bytes.fields[1], NoVal)]
    ELSE IF bytes.variant = 1 /\ Len(bytes.fields) = 1
      THEN [ok |-> TRUE, req |-> GetReq(bytes.fields[1])]
    ELSE IF bytes.variant = 2 /\ Len(bytes.fields) = 1
      THEN [ok |-> TRUE, req |-> RemoveReq(bytes.fields[1])]
    ELSE [ok |-> FALSE, req |-> GetReq("")]

\* rmp_serde::from_read(stream) as Request
DecodeRequest(bytes) ==
    IF bytes.variant = 0 /\ Len(bytes.fields) = 2
      THEN [ok |-> TRUE, req |-> SetReq(bytes.fields[1], bytes.fields[2])]
    ELSE IF bytes.variant = 1 /\ Len(bytes.fields) = 1
      THEN [ok |-> TRUE, req |-> GetReq(bytes.fields[1])]
    ELSE IF bytes.variant = 2 /\ Len(bytes.fields) = 1
      THEN [ok |-> TRUE, req |-> RemoveReq(bytes.fields[1])]
    ELSE [ok |-> FALSE, req |-> GetReq("")]

\* enum Response { Ok, Value(String), Error(Error) }
RespOk == [kind |-> "Ok", val |-> NoVal, err |-> ""]
RespValue(v) == [kind |-> "Value", val |-> v, err |-> ""]
RespError(e) == [kind |-> "Error", val |-> NoVal, err |-> e]

\* rmp_serde::to_vec(&Response)
EncodeResponse(resp) ==
    CASE resp.kind = "Ok" -> [variant |-> 0, fields |-> <<>>]
      [] resp.kind = "Value" -> [variant |-> 1, fields |-> <<resp.val>>]
      [] resp.kind = "Error" -> [variant |-> 2, fields |-> <<resp.err>>]

\* rmp_serde::from_read(&self.socket) as Response
DecodeResponse(bytes) ==
    CASE bytes.variant = 0 -> RespOk
      [] bytes.variant = 1 -> RespValue(bytes.fields[1])
      [] bytes.variant = 2 -> RespError(bytes.fields[1])

NoBytes == [variant |-> 0 - 1, fields |-> <<>>]

\* what handle_request returns for the engine result res of the call op:
\* set and remove give Ok(None), get gives what the engine gave
handle_request(op, res) ==
    IF op \in {"set", "remove"} /\ res = ResOk THEN ResNone ELSE res

\* a server that answers a get of an absent key with Error(KeyNotFound)
ServerResponse_NoneIsKeyNotFound(op, res) ==
    LET v == handle_request(op, res)
    IN CASE v.tag = "Some" -> RespValue(v.val)
         [] v.tag = "None" -> IF op = "get" THEN RespError("KeyNotFound") ELSE RespOk
         [] OTHER -> RespError(v.tag)

\* the match of start on the result of handle_request
ServerResponse(op, res) ==
    LET v == handle_request(op, res)
    IN CASE v.tag = "Some" -> RespValue(v.val)
         [] v.tag = "None" -> RespOk
         [] OTHER -> RespError(v.tag)

\* what KvsClient::get, set or remove returns for the bytes of the response
ClientResult(op, bytes) ==
    LET resp == DecodeResponse(bytes)
    IN IF op = "get"
         THEN CASE resp.kind = "Value" -> ResSome(resp.val)
                [] resp.kind = "Ok" -> ResNone
                [] resp.kind = "Error" -> Res(resp.err, NoVal)
         ELSE CASE resp.kind = "Ok" -> ResOk
                [] resp.kind = "Error" -> Res(resp.err, NoVal)
                [] resp.kind = "Value" -> ResPanic

\* what a get that decodes bytes that are no record can do: fail to decode,
\* fail the assertion on the key, or return the text it decoded
Outcomes(res) ==
    IF res = ResGarbage
      THEN {ResDeserializeError, ResPanic, ResSome([ch |-> "junk", len |-> 0])}
      ELSE {res}

Conns == Len(trace) + Len(pending) + (IF cur = NoConn THEN 0 ELSE 1)

\* a client connects and writes the bytes of its request
Connect(bytes) ==
    /\ server = "running"
    /\ Conns < MaxConns
    /\ pending' = Append(pending, [id |-> Conns + 1, bytes |-> bytes])
    /\ UNCHANGED <<store, log_pos, num_uncompacted, log_writer, log, newlog, engine,
                   ret, cmp, model, clean, removed, steps, faults, crashes, opens,
                   server, cur, trace, ext>>

\* the call of the engine that handle_request makes for the request
Dispatch(req) ==
    IF req.op = "set" THEN Set(req.key, req.val)
    ELSE IF req.op = "get" THEN Get(req.key)
    ELSE Remove(req.key)

\* socket.accept() and handle_request: the oldest connection is accepted,
\* its request is decoded and the engine is called
Handle ==
    /\ server = "running"
    /\ cur = NoConn
    /\ pending # <<>>
    /\ pending' = Tail(pending)
    /\ LET c == Head(pending)
           d == DecodeRequest(c.bytes)
       IN IF d.ok
            THEN /\ Dispatch(d.req)
                 /\ \E r \in Outcomes(ret'.res) :
                       /\ cur' = [id |-> c.id, bytes |-> c.bytes, called |-> d.req.op,
                                  res |-> r,
                                  resp |-> IF r = ResPanic THEN NoBytes
                                           ELSE EncodeResponse(ServerResponse(d.req.op, r))]
                       /\ server' = IF r = ResPanic THEN "panicked" ELSE server
            ELSE /\ cur' = [id |-> c.id, bytes |-> c.bytes, called |-> "none",
                            res |-> ResDeserializeError,
                            resp |-> EncodeResponse(
                                        ServerResponse("none", ResDeserializeError))]
                 /\ UNCHANGED <<store, log_pos, num_uncompacted, log_writer, log,
                                newlog, engine, ret, cmp, model, clean, removed,
                                steps, faults, opens, server>>
    /\ UNCHANGED <<crashes, trace, ext>>

\* stream.write_all(&buf): the response is written, the client returns and
\* the loop goes back to accept
Respond ==
    /\ server = "running"
    /\ cur # NoConn
    /\ trace' = Append(trace,
                       [id |-> cur.id, bytes |-> cur.bytes, called |-> cur.called,
                        res |-> cur.res, resp |-> cur.resp,
                        cret |-> IF cur.called = "none" THEN ResDeserializeError
                                 ELSE ClientResult(cur.called, cur.resp)])
    /\ cur' = NoConn
    /\ UNCHANGED <<store, log_pos, num_uncompacted, log_writer, log, newlog, engine,
                   ret, cmp, model, clean, removed, steps, faults, crashes, opens,
                   server, pending, ext>>

\* kvs-server: the engine is opened on an empty directory and start runs
InitNet ==
    /\ InitEngine
    /\ InitDir
    /\ server = "running"
    /\ pending = <<>>
    /\ cur = NoConn
    /\ trace = <<>>

NextNet ==
    \/ \E bytes \in {EncodeRequest(req) : req \in Requests} \cup BadBytes : Connect(bytes)
    \/ Handle
    \/ Respond

SpecNet == InitNet /\ [][NextNet]_vars

\* stream.write_all(&buf)? returns Err because the client has closed or
\* reset the connection: start returns the error and the process ends
RespondFails ==
    /\ server = "running"
    /\ cur # NoConn
    /\ trace' = Append(trace,
                       [id |-> cur.id, bytes |-> cur.bytes, called |-> cur.called,
                        res |-> cur.res, resp |-> NoBytes, cret |-> ResCrash])
    /\ cur' = NoConn
    /\ server' = "stopped"
    /\ UNCHANGED <<store, log_pos, num_uncompacted, log_writer, log, newlog, engine,
                   ret, cmp, model, clean, removed, steps, faults, crashes, opens,
                   pending, ext>>

\* the server and clients that may go away before they read the response
NextGone ==
    \/ NextNet
    \/ RespondFails

SpecGone == InitNet /\ [][NextGone]_vars

\* ----------------------------------------------------------------------
\* The binaries: kvs-server up to its call of start, the embedded kvs and
\* kvs-client
\* ----------------------------------------------------------------------
EngineNames == {"kvs", "sled"}

\* KvStore::is_log_present, then SledKvsEngine::is_log_present
current_engine(m) ==
    IF m.kvs THEN "kvs" ELSE IF m.sled THEN "sled" ELSE "none"

\* match matches.value_of("engine"): requested is "none" without --engine
selected_engine(requested, curr) ==
    IF requested = "none"
      THEN (IF curr = "none" THEN "kvs" ELSE curr)
      ELSE requested

\* if let Some(curr) = current_engine { if curr != engine { exit(1) } }
mismatch(curr, eng) == curr # "none" /\ curr # eng

\* KvStore::open on a directory whose files are file and nl, as an engine
\* record; ok tells whether load_log returned Ok
OpenEng(file, nl) ==
    LET r == load_log(file)
    IN [store |-> IF r.ok THEN r.store ELSE EmptyStore, log_pos |-> r.log_pos,
        num_uncompacted |-> 0, log_writer |-> <<>>, log |-> file, newlog |-> nl,
        ok |-> r.ok, err |-> r.err, appended |-> TRUE, ran |-> FALSE,
        before |-> NoneMap, at |-> NoSnap]

\* the process ends: the engine is dropped (the BufWriter writes what it
\* holds) and only the two files of e are left
Exit(e) ==
    /\ log' = e.log \o e.log_writer
    /\ newlog' = e.newlog
    /\ log_writer' = <<>>
    /\ store' = EmptyStore
    /\ log_pos' = 0
    /\ num_uncompacted' = 0
    /\ engine' = "none"
    /\ cmp' = [ran |-> e.ran, before |-> e.before, at |-> e.at]

KeyNotFoundMsg == "Key not found"

Printed(so, se, code) == [stdout |-> so, stderr |-> se, exit |-> code]

\* main of the embedded kvs after KvStore::open, for the engine result res
\* of its subcommand op: println!, std::process::exit, and the Err that
\* main returns (printed on stderr with exit status 1)
kvs_main(op, res) ==
    CASE res = ResPanic -> Printed("", "panic", 101)
      [] op = "get" /\ res = ResNone -> Printed(KeyNotFoundMsg, "", 0)
      [] op = "get" /\ res.tag = "Some" -> Printed("value", "", 0)
      [] op = "rm" /\ res = ResKeyNotFound -> Printed(KeyNotFoundMsg, "", 1)
      [] op \in {"set", "rm"} /\ res = ResOk -> Printed("", "", 0)
      [] OTHER -> Printed("", "Error", 1)

\* main of kvs-client for the result cres of KvsClient::get, set or remove
kvs_client_main(op, cres) ==
    CASE cres = ResPanic -> Printed("", "panic", 101)
      [] op = "get" /\ cres = ResNone -> Printed(KeyNotFoundMsg, "", 0)
      [] op = "get" /\ cres.tag = "Some" -> Printed("value", "", 0)
      [] op = "get" /\ cres = ResKeyNotFound -> Printed(KeyNotFoundMsg, "", 1)
      [] op = "rm" /\ cres = ResKeyNotFound -> Printed("", KeyNotFoundMsg, 1)
      [] op \in {"set", "rm"} /\ cres = ResOk -> Printed("", "", 0)
      [] OTHER -> Printed("", "Error", 1)

\* the subcommand of the binaries for an operation of the engine
Subcommand(op) == IF op = "remove" THEN "rm" ELSE op

\* kvs-server is run with --engine requested ("none": without the flag)
Start(requested) ==
    /\ server = "down"
    /\ steps < MaxOps
    /\ LET curr == current_engine(markers)
           eng == selected_engine(requested, curr)
           run == [requested |-> requested, detected |-> curr, selected |-> eng,
                   owned |-> owners, before |-> markers]
       IN IF mismatch(curr, eng)
            THEN /\ start' = run @@ [after |-> markers, opened |-> "none",
                                     exit |-> 1, stdout |-> <<curr, eng>>]
                 /\ steps' = steps + 1
                 /\ UNCHANGED <<store, log_pos, num_uncompacted, log_writer, log,
                                newlog, engine, ret, cmp, model, clean, removed,
                                faults, opens, server, markers, owners>>
            ELSE IF eng = "kvs"
              THEN /\ Open
                   /\ markers' = [markers EXCEPT !.kvs = TRUE]
                   /\ owners' = owners \cup {"kvs"}
                   /\ server' = IF engine' = "open" THEN "running" ELSE "down"
                   /\ start' = run @@ [after |-> markers', opened |-> "kvs",
                                       exit |-> IF engine' = "open" THEN 0 ELSE 1,
                                       stdout |-> <<>>]
              ELSE /\ markers' = [markers EXCEPT !.sled = TRUE]
                   /\ owners' = owners \cup {"sled"}
                   /\ server' = "running"
                   /\ start' = run @@ [after |-> markers', opened |-> "sled",
                                       exit |-> 0, stdout |-> <<>>]
                   /\ steps' = steps + 1
                   /\ UNCHANGED <<store, log_pos, num_uncompacted, log_writer, log,
                                  newlog, engine, ret, cmp, model, clean, removed,
                                  faults, opens>>
    /\ UNCHANGED <<crashes, pending, cur, trace, cli, sledv, root>>

\* the process of kvs-server is stopped between two connections
Stop ==
    /\ server = "running"
    /\ cur = NoConn
    /\ pending = <<>>
    /\ server' = "down"
    /\ Exit([Eng EXCEPT !.at = cmp.at, !.before = cmp.before, !.ran = cmp.ran])
    /\ UNCHANGED <<ret, model, clean, removed, steps, faults, crashes, opens,
                   pending, cur, trace, ext>>

\* the embedded kvs is run with the subcommand op in the directory
Kvs(op, key, value) ==
    /\ server = "down"
    /\ steps < MaxOps
    /\ markers' = [markers EXCEPT !.kvs = TRUE]
    /\ owners' = owners \cup {"kvs"}
    /\ \E o \in {OpenEng(log \o log_writer, newlog)} :
         IF ~o.ok
           THEN /\ Exit(o)
                /\ ret' = [op |-> "open", key |-> "", res |-> Res(o.err, NoVal)]
                /\ cli' = [op |-> op, key |-> key, res |-> Res(o.err, NoVal)]
                             @@ Printed("", "Error", 1)
                /\ UNCHANGED <<model, clean, removed>>
         ELSE IF op = "set"
           THEN \E e \in {DoSet(o, key, value, NoFault)} :
                  /\ Exit(e)
                  /\ ret' = [op |-> "set", key |-> key,
                             res |-> IF e.ok THEN ResOk ELSE ResIOError]
                  /\ cli' = [op |-> op, key |-> key, res |-> ret'.res]
                               @@ kvs_main(op, ret'.res)
                  /\ model' = IF e.ok THEN [model EXCEPT ![key] = ResSome(value)]
                              ELSE model
                  /\ clean' = (clean /\ e.ok)
                  /\ removed' = [removed EXCEPT ![key] = "no"]
         ELSE IF op = "get"
           THEN \E r \in Outcomes(GetRes(o.store, o.log, key)) :
                  /\ Exit(o)
                  /\ ret' = [op |-> "get", key |-> key, res |-> r]
                  /\ cli' = [op |-> op, key |-> key, res |-> r] @@ kvs_main(op, r)
                  /\ UNCHANGED <<model, clean, removed>>
         ELSE IF key \in DOMAIN o.store
           THEN \E e \in {DoRemove(o, key, NoFault)} :
                  /\ Exit(e)
                  /\ ret' = [op |-> "remove", key |-> key,
                             res |-> IF e.ok THEN ResOk ELSE ResIOError]
                  /\ cli' = [op |-> op, key |-> key, res |-> ret'.res]
                               @@ kvs_main(op, ret'.res)
                  /\ model' = IF e.ok THEN [model EXCEPT ![key] = ResNone] ELSE model
                  /\ clean' = (clean /\ e.ok)
                  /\ removed' = [removed EXCEPT ![key] = "no"]
           ELSE /\ Exit(o)
                /\ ret' = [op |-> "remove", key |-> key, res |-> ResKeyNotFound]
                /\ cli' = [op |-> op, key |-> key, res |-> ResKeyNotFound]
                             @@ kvs_main(op, ResKeyNotFound)
                /\ UNCHANGED <<model, clean, removed>>
    /\ steps' = steps + 1
    /\ opens' = 0
    /\ UNCHANGED <<faults, crashes, net, start, sledv, root>>

\* kvs-client is run while kvs-server serves the log-structured engine and
\* no other client is connected: KvsClient connects and writes the request,
\* start accepts, calls the engine and writes the response, the client reads
\* it (or the end of the stream when the server panicked)
Client(req) ==
    /\ server = "running"
    /\ start.opened = "kvs"
    /\ cur = NoConn
    /\ pending = <<>>
    /\ Conns < MaxConns
    /\ Dispatch(req)
    /\ \E r \in Outcomes(ret'.res) :
          LET resp == EncodeResponse(ServerResponse(req.op, r))
          IN /\ server' = IF r = ResPanic THEN "panicked" ELSE server
             /\ trace' = Append(trace,
                   [id |-> Conns + 1, bytes |-> EncodeRequest(req),
                    called |-> req.op, res |-> r,
                    resp |-> IF r = ResPanic THEN NoBytes ELSE resp,
                    cret |-> IF r = ResPanic THEN ResDeserializeError
                             ELSE ClientResult(req.op, resp)])
    /\ UNCHANGED <<crashes, pending, cur, ext>>

\* an empty directory in which no process runs
InitCli ==
    /\ store = EmptyStore
    /\ log_pos = 0
    /\ num_uncompacted = 0
    /\ log_writer = <<>>
    /\ log = <<>>
    /\ newlog = <<>>
    /\ engine = "none"
    /\ ret = [op |-> "none", key |-> "", res |-> ResOk]
    /\ cmp = NoCmp
    /\ model = NoneMap
    /\ clean = TRUE
    /\ removed = [k \in Keys |-> "no"]
    /\ steps = 0
    /\ faults = 0
    /\ crashes = 0
    /\ opens = 0
    /\ server = "down"
    /\ pending = <<>>
    /\ cur = NoConn
    /\ trace = <<>>
    /\ markers = [kvs |-> FALSE, sled |-> FALSE]
    /\ start = NoStart
    /\ owners = {}
    /\ cli = NoOut
    /\ db = NoneMap
    /\ sret = ResOk
    /\ InitRoot

\* the three binaries run in one directory, one process at a time beside
\* the server
NextCli ==
    \/ \E requested \in EngineNames \cup {"none"} : Start(requested)
    \/ Stop
    \/ \E key \in Keys, value \in Values : Kvs("set", key, value)
    \/ \E key \in Keys : Kvs("get", key, NoVal)
    \/ \E key \in Keys : Kvs("rm", key, NoVal)
    \/ \E req \in Requests : Client(req)

SpecCli == InitCli /\ [][NextCli]_vars

\* ----------------------------------------------------------------------
\* SledKvsEngine, called side by side with KvStore
\* ----------------------------------------------------------------------
\* SledKvsEngine::set: self.db.insert(key, value)?; self.db.flush()?
sled_set(d, key, value) ==
    [db |-> [d EXCEPT ![key] = ResSome(value)], res |-> ResOk]

\* SledKvsEngine::get: self.db.get(key)?, the bytes turned into a String
sled_get(d, key) == [db |-> d, res |-> d[key]]

\* SledKvsEngine::remove: self.db.remove(key)?; self.db.flush()?; then
\* KeyNotFound when sled held no value for the key
sled_remove(d, key) ==
    [db |-> [d EXCEPT ![key] = ResNone],
     res |-> IF d[key] = ResNone THEN ResKeyNotFound ELSE ResOk]

\* the call returns r on the sled side
Sled(r) == db' = r.db /\ sret' = r.res

\* what a call on both engines leaves alone
beside == <<crashes, net, markers, start, owners, cli, root>>

\* the same calls are made on a KvStore and on a SledKvsEngine, each in a
\* directory of its own; both are dropped and opened again together
NextSled ==
    \/ \E key \in Keys, value \in Values :
          Set(key, value) /\ Sled(sled_set(db, key, value)) /\ UNCHANGED beside
    \/ \E key \in Keys :
          Get(key) /\ Sled(sled_get(db, key)) /\ UNCHANGED beside
    \/ \E key \in Keys :
          Remove(key) /\ Sled(sled_remove(db, key)) /\ UNCHANGED beside
    \/ Open /\ Sled([db |-> db, res |-> ResOk]) /\ UNCHANGED beside

SpecSled == Init /\ [][NextSled]_vars

\* ----------------------------------------------------------------------
\* The KvStore of lib.rs: unframed entries, an index key -> offset
\* ----------------------------------------------------------------------
MAX_LOG_SIZE == 1048576

\* lib.rs KvStore::get on the index st and the file behind log_reader
RootGetRes(st, file, key) ==
    IF key \notin DOMAIN st THEN ResNone
    ELSE LET i == FragStart(file, st[key])
         IN IF st[key] >= FileLen(file) THEN ResDeserializeError
            ELSE IF i = 0 THEN ResGarbage
            ELSE IF file[i].cmd.op = "Set" /\ file[i].cmd.key = key
              THEN ResSome(file[i].cmd.val)
              ELSE ResPanic

RootGetAll(st, file) == [k \in Keys |-> RootGetRes(st, file, k)]

\* log_data.sort_by(offset) of the HashMap: every order of the keys that is
\* ascending in the offsets
RootSortedKeys(st) ==
    LET D == DOMAIN st
        n == Cardinality(D)
    IN { s \in [1..n -> D] :
           /\ \A i, j \in 1..n : i # j => s[i] # s[j]
           /\ \A i, j \in 1..n : i < j => st[s[i]] <= st[s[j]] }

RECURSIVE RootCopyLoop(_, _, _, _, _)
\* the for loop of lib.rs compact over order[i..]: the entry decoded at the
\* offset of the key is encoded again and written to the new log
RootCopyLoop(order, i, st, src, out) ==
    IF i > Len(order) THEN [ok |-> TRUE, out |-> out]
    ELSE LET j == FragStart(src, st[order[i]])
         IN IF j = 0 THEN [ok |-> FALSE, out |-> out]
            ELSE RootCopyLoop(order, i + 1, st, src, Append(out, src[j]))

\* lib.rs KvStore::compact on the engine record e with the keys in order
root_compact(e, order) ==
    LET r == RootCopyLoop(order, 1, e.store, e.log, <<>>)
    IN IF r.ok
         THEN [e EXCEPT !.log = e.newlog \o r.out,
                        !.newlog = <<>>,
                        !.log_pos = FileLen(r.out),
                        !.ok = TRUE, !.ran = TRUE]
         ELSE [e EXCEPT !.newlog = e.newlog \o r.out,
                        !.ok = FALSE, !.ran = TRUE]

RootInsert(st, key, pos) ==
    [k \in (DOMAIN st) \cup {key} |-> IF k = key THEN pos ELSE st[k]]

RootEng == [store |-> rstore, log_pos |-> rlog_pos, log |-> rlog,
            newlog |-> rnewlog, ok |-> TRUE, ran |-> FALSE]

RootInstall(e) ==
    /\ rstore' = e.store
    /\ rlog_pos' = e.log_pos
    /\ rlog' = e.log
    /\ rnewlog' = e.newlog

\* lib.rs KvStore::set
RootSet(key, value) ==
    /\ rsteps < MaxOps
    /\ \E order \in RootSortedKeys(rstore) :
       \E c \in {IF rlog_pos >= MAX_LOG_SIZE THEN root_compact(RootEng, order)
                 ELSE RootEng} :
          /\ rcmp' = [ran |-> c.ran, ok |-> c.ok, store |-> c.store,
                      before |-> RootGetAll(rstore, rlog),
                      after |-> RootGetAll(c.store, c.log)]
          /\ IF c.ok
               THEN /\ RootInstall([c EXCEPT
                          !.log = Append(c.log, CmdFrag(SetCmd(key, value))),
                          !.store = RootInsert(c.store, key, c.log_pos),
                          !.log_pos = @ + PayloadLen(SetCmd(key, value))])
                    /\ rret' = [op |-> "set", key |-> key, res |-> ResOk]
               ELSE /\ RootInstall(c)
                    /\ rret' = [op |-> "set", key |-> key, res |-> ResDeserializeError]
    /\ rsteps' = rsteps + 1

\* lib.rs KvStore::get
RootGet(key) ==
    /\ rsteps < MaxOps
    /\ rret' = [op |-> "get", key |-> key, res |-> RootGetRes(rstore, rlog, key)]
    /\ rcmp' = RootNoCmp
    /\ rsteps' = rsteps + 1
    /\ UNCHANGED <<rstore, rlog_pos, rlog, rnewlog>>

\* lib.rs KvStore::remove
RootRemove(key) ==
    /\ rsteps < MaxOps
    /\ IF key \in DOMAIN rstore
         THEN /\ rstore' = [k \in (DOMAIN rstore) \ {key} |-> rstore[k]]
              /\ rlog' = Append(rlog, CmdFrag(RemoveCmd(key)))
              /\ rlog_pos' = rlog_pos + PayloadLen(RemoveCmd(key))
              /\ rret' = [op |-> "remove", key |-> key, res |-> ResOk]
         ELSE /\ rret' = [op |-> "remove", key |-> key, res |-> ResKeyNotFound]
              /\ UNCHANGED <<rstore, rlog, rlog_pos>>
    /\ rcmp' = RootNoCmp
    /\ rsteps' = rsteps + 1
    /\ UNCHANGED rnewlog

RECURSIVE RootLoadLoop(_, _, _)
\* the while loop of lib.rs load_log from entry i on
RootLoadLoop(file, i, st) ==
    IF i > Len(file) THEN st
    ELSE RootLoadLoop(file, i + 1,
           IF file[i].cmd.op = "Set"
             THEN RootInsert(st, file[i].cmd.key, PrefixLen(file, i - 1))
             ELSE [k \in (DOMAIN st) \ {file[i].cmd.key} |-> st[k]])

\* the lib.rs KvStore is dropped and KvStore::open is called again
RootOpen ==
    /\ rsteps < MaxOps
    /\ rstore' = RootLoadLoop(rlog, 1, NoOffsets)
    /\ rlog_pos' = FileLen(rlog)
    /\ rret' = [op |-> "open", key |-> "", res |-> ResOk]
    /\ rcmp' = RootNoCmp
    /\ rsteps' = rsteps + 1
    /\ UNCHANGED <<rlog, rnewlog>>

\* what a call on the lib.rs KvStore leaves alone
notRoot == <<store, log_pos, num_uncompacted, log_writer, log, newlog, engine,
             ret, cmp, model, clean, removed, steps, faults, crashes, opens,
             net, markers, start, owners, cli, sledv>>

NextRoot ==
    \/ \E key \in Keys, value \in Values : RootSet(key, value) /\ UNCHANGED notRoot
    \/ \E key \in Keys : RootGet(key) /\ UNCHANGED notRoot
    \/ \E key \in Keys : RootRemove(key) /\ UNCHANGED notRoot
    \/ RootOpen /\ UNCHANGED notRoot

SpecRoot == Init /\ [][NextRoot]_vars

\* ----------------------------------------------------------------------
\* Derived quantities
\* ----------------------------------------------------------------------
\* the last call was a set or remove that returned Ok
Mutated == ret.op \in {"set", "remove"} /\ ret.res = ResOk

\* the file is a concatenation of complete framed records
WellFramed(file) ==
    /\ Len(file) % 2 = 0
    /\ \A i \in 1..Len(file) :
         IF i % 2 = 1
           THEN file[i].t = "size" /\ file[i + 1].t = "cmd" /\ file[i + 1].n = file[i].n
           ELSE file[i].t = "cmd"

RECURSIVE SumSizes(_, _)
\* sum of st[k].size over the keys k of S
SumSizes(st, S) ==
    IF S = {} THEN 0
    ELSE LET k == CHOOSE x \in S : TRUE
         IN st[k].size + SumSizes(st, S \ {k})

\* framed bytes of the records a scan of the file keeps
LiveBytes(file) ==
    LET r == load_log(file)
    IN SumSizes(r.store, DOMAIN r.store)

\* framed bytes of superseded Set records and of Remove records
DeadBytes(file) == FileLen(file) - LiveBytes(file)

\* ----------------------------------------------------------------------
\* Claims
\* ----------------------------------------------------------------------

\* C1: after successful set/remove calls only, get(k) of a key whose last
\* mutation was set(k, v) returns Some(v).
C1_GetReturnsLastSet ==
    (engine = "open" /\ clean) =>
        \A k \in Keys : model[k].tag = "Some" => GetRes(store, log, k) = model[k]

\* C2: after a remove(k) that returned Ok and until the next set(k, _) on
\* the engine, get(k) returns None and remove(k) returns KeyNotFound.
C2_RemovedKeyStaysAbsent ==
    [][\A k \in Keys :
          (removed[k] # "no" /\ ret'.key = k) =>
              /\ ret'.op = "get" => ret'.res = ResNone
              /\ ret'.op = "remove" => ret'.res = ResKeyNotFound]_vars

\* C2 witnesses: a get and a second remove after a remove that compacted
C2_Witness ==
    /\ \E k \in Keys : removed[k] = "compacted" /\ ret.key = k
    /\ ret.res = ResKeyNotFound

\* C3: remove(k) of a key that is not in the index returns KeyNotFound and
\* leaves the log, the writer, the index, log_pos and num_uncompacted alone.
C3_RemoveAbsentChangesNothing ==
    [][(ret'.op = "remove" /\ steps' # steps /\ ret'.key \notin DOMAIN store) =>
          /\ ret'.res = ResKeyNotFound
          /\ UNCHANGED <<store, log_pos, num_uncompacted, log, log_writer, newlog>>]_vars

C3_Witness ==
    /\ ret.op = "remove" /\ ret.res = ResKeyNotFound
    /\ Len(log) > 0 /\ DOMAIN store # {}

\* C4: after successful set/remove calls, dropping the engine and opening
\* the directory again gives an engine that answers get as before the close.
C4_ReopenKeepsLiveMap ==
    (ret.op = "open" /\ clean) =>
        engine = "open" /\ GetAll(store, log) = cmp.before

\* C5: get(k) returns the same before and after a compaction, for every k.
C5_CompactionPreservesGet ==
    (Mutated /\ cmp.ran) => GetAll(store, log) = cmp.before

\* C6: for every key k of the index, a complete framed record that decodes
\* to Set(k, v) is at index[k].offset in the active log.
C6_IndexOffsetInvariant ==
    engine = "open" =>
        \A k \in DOMAIN store :
            LET r == ReadRecord(log, store[k].pos)
            IN r.st = "ok" /\ r.cmd.op = "Set" /\ r.cmd.key = k

\* C7: after every successful open, set, remove and compaction, log_pos is
\* the byte length of the active log.
C7_WritePosIsFileLength ==
    (engine = "open" /\ ret.res = ResOk) => log_pos = FileLen(log)

\* C8: num_uncompacted is at least the number of dead bytes of the active
\* log and at most log_pos.
C8_UncompactedBounds ==
    engine = "open" =>
        /\ DeadBytes(log) <= num_uncompacted
        /\ num_uncompacted <= log_pos

\* C9: after a successful set or remove the dead bytes of kvs.log do not
\* exceed the threshold, over any number of sessions.
C9_DeadBytesBounded ==
    Mutated => DeadBytes(log) <= MAX_UNCOMPACTED

\* C10: after a successful set or remove, kvs.log is a concatenation of
\* complete framed records, also after an earlier call failed in its write.
C10_WellFramedLog ==
    Mutated => WellFramed(log)

\* ----------------------------------------------------------------------
\* Compaction
\* ----------------------------------------------------------------------
\* the last call ran a compaction that succeeded
Compacted == Mutated /\ cmp.ran

\* the file is one framed Set record per key of order, in that order
OneSetPerKey(file, order) ==
    /\ Len(file) = 2 * Len(order)
    /\ \A i \in 1..Len(order) :
          /\ file[2 * i - 1].t = "size"
          /\ file[2 * i].t = "cmd"
          /\ file[2 * i - 1].n = file[2 * i].n
          /\ file[2 * i].cmd.op = "Set"
          /\ file[2 * i].cmd.key = order[i]

\* C11: right after a compaction that succeeded, kvs.log holds exactly one
\* Set record for each key of the index and nothing else (no Remove, no
\* superseded record), in the order of the offsets the keys had in the old
\* log; so its length is the sum of the framed sizes of these records, and
\* zero when the index is empty.
C11_CompactedLogContents ==
    Compacted =>
        /\ DOMAIN store = DOMAIN cmp.at.store
        /\ OneSetPerKey(log, SortedKeys(cmp.at.store))
        /\ FileLen(log) = LiveBytes(log)
        /\ (DOMAIN store = {} => FileLen(log) = 0)

\* C12: a set or remove whose record was appended runs a compaction when,
\* and only when, num_uncompacted is strictly greater than MAX_UNCOMPACTED
\* after the call has added its own dead bytes; a call that does not get
\* that far never compacts.  So num_uncompacted <= MAX_UNCOMPACTED whenever
\* a set or remove has returned Ok, and it is 0 right after a compaction.
C12_CompactionTrigger ==
    /\ (ret.op \in {"set", "remove"} /\ cmp.at.reached) =>
           (cmp.ran <=> cmp.at.unc > MAX_UNCOMPACTED)
    /\ ~cmp.at.reached => ~cmp.ran
    /\ Mutated => num_uncompacted <= MAX_UNCOMPACTED
    /\ Compacted => num_uncompacted = 0

C12_Witness ==
    /\ Compacted
    /\ cmp.at.unc > MAX_UNCOMPACTED
    /\ num_uncompacted = 0

\* ----------------------------------------------------------------------
\* Durability of an acknowledged call
\* ----------------------------------------------------------------------
\* the file holds the complete framed record of the command
HasRecord(file, cmd) ==
    \E i \in 1..(Len(file) - 1) :
        /\ file[i] = SizeFrag(PayloadLen(cmd))
        /\ file[i + 1] = CmdFrag(cmd)

\* what get(key) returns on the engine that open builds from the file when
\* the process stopped right now: the BufWriter's content never reaches it
AfterCrash(file, key) ==
    LET r == load_log(file)
    IN IF r.ok THEN GetRes(r.store, file, key) ELSE ResDeserializeError

\* C13: when set or remove has returned Ok, the BufWriter holds nothing and
\* the framed record of the call is in kvs.log (a compaction run by the
\* call drops a Remove record, and keeps the Set record), so that after a
\* crash right after the return open succeeds and get of the key returns
\* what the call wrote.
C13_FlushedBeforeAck ==
    Mutated =>
        /\ log_writer = <<>>
        /\ ret.op = "set" => HasRecord(log, SetCmd(ret.key, model[ret.key].val))
        /\ (ret.op = "remove" /\ ~cmp.ran) => HasRecord(log, RemoveCmd(ret.key))
        /\ AfterCrash(log, ret.key) = model[ret.key]

\* ----------------------------------------------------------------------
\* Crash inside a compaction
\* ----------------------------------------------------------------------
\* C14: when the process stops inside a compaction before the rename,
\* kvs.log is what it was when the compaction started; when the engine
\* served the live map up to the crash, the next open succeeds, and get
\* returns the live map after that open and after every later call that
\* returned normally, among them a compaction that writes kvs.log.new again
\* and a further open.
C14_CrashInCompaction ==
    /\ engine = "crashed" => log = cmp.at.log
    /\ (crashes > 0 /\ clean /\ engine # "crashed") =>
           /\ engine = "open"
           /\ GetAll(store, log) = model

\* ----------------------------------------------------------------------
\* Compaction of an index entry that has no complete record behind it
\* ----------------------------------------------------------------------
\* some entry of the index st has no complete framed record at its offset
\* in src: reading its size prefix or its payload there comes up short
ShortEntry(st, src) ==
    \E k \in DOMAIN st : ReadRecord(src, st[k].pos).st # "ok"

\* C15: a compaction that meets an index entry whose record cannot be read
\* in full from the source file makes the call return an error and does
\* not rename: kvs.log holds the bytes it held when the compaction started.
C15_FailedCompactionKeepsLog ==
    (cmp.ran /\ ret.res # ResCrash /\ ShortEntry(cmp.at.store, cmp.at.log)) =>
        /\ ret.res = ResIOError
        /\ log = cmp.at.log

\* ----------------------------------------------------------------------
\* Opening again
\* ----------------------------------------------------------------------
\* C16: an open that follows an open, with no set or remove call between
\* them, has the outcome of the open before it, builds the same index (keys,
\* offsets, sizes) and the same log_pos, and leaves kvs.log as it was.
C16_ScanIdempotent ==
    [][(opens >= 1 /\ opens' = opens + 1) =>
          /\ store' = store
          /\ log_pos' = log_pos
          /\ log' = log
          /\ engine' = engine]_vars

C16_Witness ==
    /\ opens >= 2
    /\ ret.op = "open"
    /\ engine = "open"
    /\ Cardinality(DOMAIN store) = 1
    /\ Len(log) > 2

\* ----------------------------------------------------------------------
\* get
\* ----------------------------------------------------------------------
\* no fragment of the file is a Get command
NoGetRecord(file) ==
    \A i \in 1..Len(file) : file[i].t = "cmd" => file[i].cmd.op # "Get"

\* C17: a get, of a key that is in the index or not, leaves kvs.log, the
\* BufWriter, kvs.log.new, the index, log_pos and num_uncompacted as they
\* were and runs no compaction; no step puts a Get record in the log.
C17_GetIsReadOnly ==
    [][/\ ret'.op = "get" =>
            /\ UNCHANGED <<store, log_pos, num_uncompacted, log, log_writer, newlog>>
            /\ ~cmp'.ran
       /\ NoGetRecord(log' \o log_writer')]_vars

C17_Witness ==
    /\ ret.op = "get"
    /\ ret.res.tag = "Some"
    /\ num_uncompacted > 0
    /\ Len(log) > 2

\* ----------------------------------------------------------------------
\* Server and client
\* ----------------------------------------------------------------------
\* the response the protocol gives for the result res of the engine call op
ImageOf(op, res) ==
    CASE op = "set" -> IF res = ResOk THEN RespOk ELSE RespError(res.tag)
      [] op = "get" -> IF res.tag = "Some" THEN RespValue(res.val)
                       ELSE IF res = ResNone THEN RespOk
                       ELSE RespError(res.tag)
      [] op = "remove" -> IF res = ResOk THEN RespOk
                          ELSE IF res = ResKeyNotFound THEN RespError("KeyNotFound")
                          ELSE RespError(res.tag)

\* C18: for every request the server answered with an engine call, the
\* response on the wire is the image of what the engine returned (Set: Ok or
\* Error(e); Get: Value(v) for Some(v), Ok for None, Error(e); Remove: Ok,
\* Error(KeyNotFound) or Error(e)), and the client's set, get or remove
\* returns what the engine returned to the server.
C18_NetworkParity ==
    \A i \in 1..Len(trace) :
        trace[i].called # "none" =>
            /\ DecodeResponse(trace[i].resp) = ImageOf(trace[i].called, trace[i].res)
            /\ trace[i].cret = trace[i].res

C18_Witness ==
    /\ \E i \in 1..Len(trace) : trace[i].called = "get" /\ trace[i].cret.tag = "Some"
    /\ \E i \in 1..Len(trace) : trace[i].called = "get" /\ trace[i].cret = ResNone
    /\ \E i \in 1..Len(trace) :
          trace[i].called = "remove" /\ trace[i].cret = ResKeyNotFound

\* the request of an answered connection, when its bytes are one
ReqOf(t) == DecodeRequest(t.bytes).req

\* the connections the server has made an engine call for
Called == {i \in 1..Len(trace) : trace[i].called # "none"}

\* C19: connections are answered one at a time in the order they were
\* made; each answered connection had one request read, at most one engine
\* call and one response, so the engine calls are as many as the requests
\* that decoded; and a get(k) answered after the response Ok of a set(k, v),
\* with no set or remove of k between them, returns Some(v).
C19_SerialServer ==
    /\ \A i \in 1..Len(trace) : trace[i].id = i /\ trace[i].resp # NoBytes
    /\ cur # NoConn => cur.id = Len(trace) + 1
    /\ \A i \in 1..Len(pending) :
          pending[i].id = Len(trace) + (IF cur = NoConn THEN 0 ELSE 1) + i
    /\ steps = Cardinality(Called) + (IF cur # NoConn /\ cur.called # "none" THEN 1 ELSE 0)
    /\ \A i, j \in Called :
          (/\ i < j
           /\ trace[i].called = "set" /\ trace[i].cret = ResOk
           /\ trace[j].called = "get" /\ ReqOf(trace[j]).key = ReqOf(trace[i]).key
           /\ \A m \in Called :
                 (i < m /\ m < j) =>
                     ~(trace[m].called \in {"set", "remove"}
                       /\ ReqOf(trace[m]).key = ReqOf(trace[i]).key))
          => trace[j].cret = ResSome(ReqOf(trace[i]).val)

\* C20: while the server has a connection whose bytes are no Request, from
\* its accept to the end of its response, the engine is not called: index,
\* kvs.log, the BufWriter, kvs.log.new, log_pos, num_uncompacted and the
\* number of engine calls stay as they were.
C20_BadRequestNoEngineCall ==
    [][((cur' # NoConn /\ cur'.bytes \in BadBytes)
            \/ (cur # NoConn /\ cur.bytes \in BadBytes)) =>
          UNCHANGED <<store, log_pos, num_uncompacted, log, log_writer, newlog,
                      steps>>]_vars

C20_Witness ==
    \E i \in 2..Len(trace) :
        /\ trace[i].bytes \in BadBytes
        /\ trace[i].called = "none"
        /\ DecodeResponse(trace[i].resp) = RespError("DeserializeError")
        /\ trace[i - 1].called = "set"
        /\ DOMAIN store # {}


\* C21: kvs-server opens an engine only when the directory has no marker or
\* the selected engine is the detected one; once the directory has been
\* opened with one engine, a start that requests the other engine exits
\* with status 1, names both engines in its message, opens no engine and
\* leaves the markers of the directory as they were.
C21_EngineMismatchGate ==
    /\ start.opened # "none" =>
          start.detected = "none" \/ start.detected = start.selected
    /\ (start.requested \in EngineNames /\ start.owned \ {start.requested} # {}) =>
          /\ start.opened = "none"
          /\ start.exit = 1
          /\ start.stdout = <<start.detected, start.requested>>
          /\ start.detected \in EngineNames \ {start.requested}
          /\ start.after = start.before


\* what a run of a binary printed for a key the engine does not hold
MissingKeyOutput(op, res, o) ==
    /\ (op = "get" /\ res = ResNone) =>
          o = Printed(KeyNotFoundMsg, "", 0)
    /\ (op = "rm" /\ res = ResKeyNotFound) =>
          o = Printed("", KeyNotFoundMsg, 1)

\* C23: in the embedded kvs and in kvs-client alike, get of a key the engine
\* does not hold prints "Key not found" on stdout and exits with status 0,
\* and rm of such a key prints "Key not found" on stderr and exits with
\* status 1.
C23_MissingKeyOutput ==
    /\ MissingKeyOutput(cli.op, cli.res,
                        Printed(cli.stdout, cli.stderr, cli.exit))
    /\ \A i \in 1..Len(trace) :
          MissingKeyOutput(Subcommand(trace[i].called), trace[i].res,
                           kvs_client_main(Subcommand(trace[i].called),
                                           trace[i].cret))


\* C22: SledKvsEngine behaves as a durable map (get returns the value last
\* set and not removed since, remove returns KeyNotFound exactly when the
\* key is absent), so every call returns on KvStore what the same call
\* returns on SledKvsEngine after the same sequence of calls.
C22_SameResultsAsSled ==
    ret.op \in {"set", "get", "remove", "open"} => ret.res = sret


\* the framed size of the record that starts at offset p of the file, 0 when
\* no record starts there
RecordSize(file, p) ==
    IF ReadRecord(file, p).st = "ok"
      THEN SizeOfU64 + file[FragStart(file, p)].n
      ELSE 0

\* C24: when set(k, v) has written its record and updated the index (the
\* moment it compares the counter with MAX_UNCOMPACTED), the entry of k
\* holds the framed size of the record just written, whether or not k was
\* in the index before, and every entry holds the framed size of the record
\* at its offset.
C24_SetReplacesEntry ==
    (ret.op = "set" /\ cmp.at.reached) =>
        LET st == cmp.at.store
            file == cmp.at.log
        IN /\ ret.key \in DOMAIN st
           /\ st[ret.key].size = SizeOfU64 + file[Len(file)].n
           /\ \A k \in DOMAIN st : st[k].size = RecordSize(file, st[k].pos)


\* the file ends with an incomplete record: fewer than 8 bytes of a size
\* prefix, or a size prefix followed by fewer bytes than it announces
TornTail(file) ==
    LET n == Len(file)
    IN /\ n > 0
       /\ \/ file[n].t = "size"
          \/ /\ file[n].t = "junk"
             /\ IF n > 1 /\ file[n - 1].t = "size"
                  THEN file[n].n < file[n - 1].n
                  ELSE file[n].n < SizeOfU64

\* C25: open on a log that ends with an incomplete record returns an IO or
\* a Deserialize error, gives no engine, and leaves kvs.log as it found it.
C25_OpenFailsOnTornLog ==
    [][(ret'.op = "open" /\ TornTail(log \o log_writer)) =>
          /\ ret'.res \in {ResIOError, ResDeserializeError}
          /\ engine' = "failed"
          /\ log' = log \o log_writer]_vars

C25_Witness ==
    /\ ret.op = "open"
    /\ engine = "failed"
    /\ TornTail(log)
    /\ ret.res = ResIOError
    /\ crashes = 1


\* what get(key) returns once the engine is dropped and opened again
GetAfterReopen(w, file, key) ==
    LET f == file \o w
        r == load_log(f)
    IN IF r.ok THEN GetRes(r.store, f, key) ELSE Res(r.err, NoVal)

\* C26: a remove(k) of a key in the index that fails while it writes or
\* flushes its record leaves k in the index: get(k) returns after the call
\* what it returned before, and the same after the engine is opened again.
C26_FailedRemoveKeepsKey ==
    [][(ret'.op = "remove" /\ ret'.res = ResIOError /\ faults' # faults) =>
          /\ ret'.key \in DOMAIN store'
          /\ GetRes(store', log', ret'.key) = GetRes(store, log, ret'.key)
          /\ GetAfterReopen(log_writer', log', ret'.key)
                = GetRes(store', log', ret'.key)]_vars


\* C27: when a set or remove has failed in its append with an IO error, the
\* next set(k2, v2) that returns Ok (without compacting) leaves the entry of
\* k2 at the start of the record of k2, log_pos at the length of the file,
\* and get(k2) = Some(v2).
C27_SetAfterFailedAppend ==
    [][(/\ ret.op \in {"set", "remove"} /\ ret.res = ResIOError /\ ~cmp.ran
        /\ ret'.op = "set" /\ ret'.res = ResOk /\ ~cmp'.ran) =>
          /\ ReadRecord(log', store'[ret'.key].pos).cmd
                = SetCmd(ret'.key, model'[ret'.key].val)
          /\ log_pos' = FileLen(log')
          /\ GetRes(store', log', ret'.key) = model'[ret'.key]]_vars


\* the last call ran a compaction that returned an error
CompactionFailed ==
    ret.op \in {"set", "remove"} /\ ret.res = ResIOError /\ cmp.ran

\* C28: when the compaction a set or remove runs returns an IO error in the
\* copy of an entry or in the flush of the new log, the index
\* and the log the engine reads are those from before the compaction, and
\* get returns for every key what it returned before it.
C28_FailedCompactionKeepsEngine ==
    (CompactionFailed /\ faults > 0) =>
        /\ store = cmp.at.store
        /\ log = cmp.at.log
        /\ GetAll(store, log) = cmp.before


\* C29: nothing that happens on one connection (an engine error, a request
\* that does not decode, a response that cannot be written because the
\* client has gone) ends the loop of start: the server started by
\* kvs-server is running in every state, ready to accept the next
\* connection.
C29_ServerStaysUp ==
    server = "running"


\* C30: after a compaction of the KvStore of lib.rs (run by set once log_pos
\* has reached MAX_LOG_SIZE) that wrote the live entries to the new log and
\* swapped the handles, every key of the index maps to the offset of its own
\* Set entry in the new log, and get returns for every key what it returned
\* before the compaction.
C30_RootCompactionKeepsOffsets ==
    (rret.op = "set" /\ rcmp.ran /\ rcmp.ok) =>
        /\ \A k \in DOMAIN rcmp.store : rcmp.after[k].tag = "Some"
        /\ rcmp.after = rcmp.before

====
